---- MODULE Spec2Model ----
(***************************************************************************)
(* Escrow order lifecycle and payment-provider reconciliation of the       *)
(* OrenPay escrow platform: the orders and transactions relations, the     *)
(* buyer / seller / admin request handlers, the provider webhooks and a    *)
(* small model of the payment provider that issues correlation references  *)
(* and sends callbacks.                                                    *)
(*                                                                         *)
(* Every "await" of a handler is a point where another request may run, so *)
(* a handler is a task that moves through its steps (pc); one action       *)
(* models one step between two awaits that touch the relational store.     *)
(***************************************************************************)
EXTENDS Integers, Sequences, FiniteSets, Bags, TLC

\* ----------------------------------------------------------------- bounds
MaxOrders == 1
MaxTx == 4
MaxRefs == 3
MaxTasks == 2
MaxAttempts == 2

\* ------------------------------------------------------------------ state
VARIABLES
    orders,     \* the orders relation: sequence of rows, id = position
    txs,        \* the transactions relation: sequence of rows, id = position
    prov,       \* the provider: one entry per accepted initiation (correlation ref)
    tasks,      \* the request handlers in flight: a bag of task records
    wasPaid,    \* history: ids of the orders whose status was ever written 'paid'
    applied,    \* history: correlation refs whose success transition has run
    timedOut,   \* history: collection requests whose timeout notice was answered
    observed,   \* whether the responses are observed (fixed by the initial state)
    resp        \* when observed: the last response sent, and to which request

vars == <<orders, txs, prov, tasks, wasPaid, applied, timedOut, observed, resp>>

\* -------------------------------------------------------------- vocabulary
\* OrderStatus type, Order.ts line 4, and CHECK constraint of createOrdersTable
OrderStatus ==
    {"pending", "paid", "shipped", "delivered", "disputed", "completed",
     "cancelled", "refunded", "processing_payout"}

TerminalOrderStatus == {"completed", "cancelled", "refunded"}

TerminalTxStatus == {"success", "failed", "refunded"}

\* the payment methods createNewOrder accepts that are modelled here
supportedPaymentMethods == {"mpesa", "airtel"}

\* the amounts an order-creation request may name
OrderAmount == 2
Amounts == {-1, 0, OrderAmount}

\* the methods a request may name
Methods == supportedPaymentMethods \cup {"bogus"}

Users == {"buyer", "seller", "stranger"}

\* provider references: none (NULL / undefined), a correlation reference
\* issued at initiation, or the receipt of a completed provider transaction
NoRef == <<>>
Ref(r) == <<"ref", r>>
Rcpt(r) == <<"rcpt", r>>

\* a handler in flight: its kind, the step it is to take next, and what it
\* has read or decided so far
Task(kind, pc, order, tx, ref, outcome, seen, replay) ==
    [kind |-> kind, pc |-> pc, order |-> order, tx |-> tx, ref |-> ref,
     outcome |-> outcome, seen |-> seen, replay |-> replay, receipt |-> NoRef,
     underpaid |-> FALSE, actor |-> ""]

\* ------------------------------------------------------- relational store
\* a row of the transactions relation (Transaction.ts, createTransactionsTable)
TxRow(order, provider, ref, status) ==
    [order_id |-> order, provider |-> provider, provider_ref |-> ref,
     status |-> status, provider_transaction_id |-> NoRef]

\* provider_ref VARCHAR(100) UNIQUE: ref is held by a row other than row id
RefHeld(rows, ref, id) ==
    /\ ref # NoRef
    /\ \E i \in 1..Len(rows) : i # id /\ rows[i].provider_ref = ref

\* createOrder: INSERT ... VALUES (..., 'pending')
createOrder(method) ==
    Append(orders, [status |-> "pending", payment_method |-> method])

\* createTransaction: INSERT of one row; the id is the next serial number;
\* an INSERT that violates the unique constraint on provider_ref throws and
\* inserts nothing
createTransaction(rows, row) ==
    IF RefHeld(rows, row.provider_ref, 0) THEN rows ELSE Append(rows, row)

\* findTransactionByProviderRef: the id of the row with this reference and
\* provider, 0 when there is none (a NULL reference matches nothing)
findTransactionIn(rows, ref, provider) ==
    IF ref # NoRef /\ \E i \in 1..Len(rows) :
            rows[i].provider_ref = ref /\ rows[i].provider = provider
    THEN CHOOSE i \in 1..Len(rows) :
            rows[i].provider_ref = ref /\ rows[i].provider = provider
    ELSE 0

findTransactionByProviderRef(ref, provider) ==
    findTransactionIn(txs, ref, provider)

\* an update that ignores the unique constraint on provider_ref
updateTransactionDetailsNoUnique(rows, id, status, ref) ==
    [rows EXCEPT ![id].status = status,
                 ![id].provider_ref = IF ref = NoRef THEN @ ELSE ref]

\* updateTransactionDetails: UPDATE ... SET status [, provider_ref] WHERE id;
\* an undefined provider_ref (NoRef) is left out of the SET list; a unique
\* violation on provider_ref is caught and nothing is written
updateTransactionDetails(rows, id, status, ref) ==
    IF RefHeld(rows, ref, id)
    THEN rows
    ELSE [rows EXCEPT ![id].status = status,
                      ![id].provider_ref = IF ref = NoRef THEN @ ELSE ref]

\* an update of the orders table without its WHERE clause
updateOrderStatusEveryRow(rows, id, status) ==
    [i \in DOMAIN rows |-> [rows[i] EXCEPT !.status = status]]

\* updateOrderStatus: UPDATE orders SET status = $1 WHERE id = $2, whatever
\* the current status is
updateOrderStatus(rows, id, status) == [rows EXCEPT ![id].status = status]

\* history of the orders that were written 'paid'
NotePaid(id, status) == IF status = "paid" THEN wasPaid \cup {id} ELSE wasPaid

\* ------------------------------------------------------------------ tasks
Running == DOMAIN tasks

\* when the responses are observed, one multi-step handler runs at a time
HasFree == BagCardinality(tasks) < (IF observed THEN 1 ELSE MaxTasks)

\* handlers that insert their transaction row in a later step
InsertsLater == {"ship", "confirm", "dispute", "release", "refund"}

\* number of handlers in flight of the given kinds
InFlight(kinds) ==
    LET S == {t \in Running : t.kind \in kinds}
    IN  BagCardinality([t \in S |-> tasks[t]])

\* room in the (bounded) ledger for one more row, counting the rows the
\* handlers in flight are still going to insert
Room == Len(txs) + InFlight(InsertsLater) < MaxTx

Start(task) == tasks (+) SetToBag({task})

Finish(t) == tasks (-) SetToBag({t})

Move(t, u) == (tasks (-) SetToBag({t})) (+) SetToBag({u})

Goto(t, pc) == Move(t, [t EXCEPT !.pc = pc])

At(t, kind, pc) == t \in Running /\ t.kind = kind /\ t.pc = pc

\* this step is a step of handler t
StepBy(t) == CopiesIn(t, tasks') < CopiesIn(t, tasks)

OrderIds == 1..Len(orders)

\* ------------------------------------------------------------- responses
\* res.status(code).json(...): the response to a request of the handler,
\* with the order the request named and whether a callback's Amount is below
\* the order's amount
Response(handler, code, order, underpaid) ==
    [handler |-> handler, code |-> code, order |-> order, underpaid |-> underpaid]

NoResponse == Response("", 0, 0, FALSE)

Answer(response) == resp' = IF observed THEN response ELSE resp

\* a request that is answered without any change to the store
Reply(response) ==
    /\ Answer(response)
    /\ UNCHANGED <<orders, txs, prov, tasks, wasPaid, applied, timedOut, observed>>

\* the response a handler in flight sends as it returns
Respond(t, code) == Answer(Response(t.kind, code, t.order, t.underpaid))

\* every order of the model has the same two parties
IsBuyer(actor) == actor = "buyer"
IsSeller(actor) == actor = "seller"

Init ==
    /\ orders = <<>>
    /\ txs = <<>>
    /\ prov = <<>>
    /\ tasks = EmptyBag
    /\ wasPaid = {}
    /\ applied = {}
    /\ timedOut = {}
    /\ observed = FALSE
    /\ resp = NoResponse

\* the same system with its responses observed
InitObserved ==
    /\ orders = <<>>
    /\ txs = <<>>
    /\ prov = <<>>
    /\ tasks = EmptyBag
    /\ wasPaid = {}
    /\ applied = {}
    /\ timedOut = {}
    /\ observed = TRUE
    /\ resp = NoResponse

\* ------------------------------------------------------ order creation
\* createNewOrder, up to the provider call: the request is validated, the
\* order and its first transaction are inserted
\* !amount is true of 0 (and of a missing amount), not of a negative amount
createNewOrderGuard(method, sellerRole, amount) ==
    /\ amount # 0
    /\ method \in supportedPaymentMethods
    /\ sellerRole \in {"seller", "business"}

CreateNewOrder(method, sellerRole, amount) ==
    IF ~createNewOrderGuard(method, sellerRole, amount)
    THEN \* 400, nothing is created
         Reply(Response("createNewOrder", 400, 0, FALSE))
    ELSE /\ Len(orders) < MaxOrders
         /\ Room
         /\ (method = "mpesa" => HasFree)
         /\ orders' = createOrder(method)
         /\ LET id == Len(orders) + 1
                tx == Len(txs) + 1
                rows == createTransaction(txs, TxRow(id, method, NoRef, "pending"))
            IN  IF method = "mpesa"
                THEN /\ txs' = rows
                     /\ tasks' = Start(Task("createNewOrder", "initiate", id, tx,
                                            NoRef, method, "", FALSE))
                     /\ UNCHANGED resp
                ELSE \* airtel: initiation is not implemented, the row stays
                     \* pending without a reference; 201
                     /\ txs' = updateTransactionDetails(rows, tx, "pending", NoRef)
                     /\ UNCHANGED tasks
                     /\ Answer(Response("createNewOrder", 201, id, FALSE))
         /\ UNCHANGED <<prov, wasPaid, applied, timedOut, observed>>

\* initiateStkPush accepted: the provider issues a CheckoutRequestID
StkAccepted(t, kind) ==
    /\ At(t, kind, "initiate")
    /\ Len(prov) < MaxRefs
    /\ prov' = Append(prov, [kind |-> "stk", order |-> t.order,
                             outcome |-> "queued", receipt |-> TRUE])
    /\ tasks' = Move(t, [t EXCEPT !.pc = "record", !.ref = Ref(Len(prov) + 1)])
    /\ UNCHANGED <<orders, txs, wasPaid, applied, timedOut, observed, resp>>

\* a catch block that answers 500 and leaves the attempt as it was logged
StkRejectedNotLogged(t, kind) ==
    /\ At(t, kind, "initiate")
    /\ tasks' = Finish(t)
    /\ Respond(t, 500)
    /\ UNCHANGED <<orders, txs, prov, wasPaid, applied, timedOut, observed>>

\* initiateStkPush throws (rejected or unreachable provider): the catch block
\* marks the attempt failed; 500
StkRejected(t, kind) ==
    /\ At(t, kind, "initiate")
    /\ txs' = updateTransactionDetails(txs, t.tx, "failed", NoRef)
    /\ tasks' = Finish(t)
    /\ Respond(t, 500)
    /\ UNCHANGED <<orders, prov, wasPaid, applied, timedOut, observed>>

\* updateTransactionDetails(id, 'pending', { provider_ref }) after the call
RecordInitiation(t, kind) ==
    /\ At(t, kind, "record")
    /\ txs' = updateTransactionDetails(txs, t.tx, "pending", t.ref)
    /\ tasks' = Finish(t)
    /\ Respond(t, IF kind = "createNewOrder" THEN 201 ELSE 200)
    /\ UNCHANGED <<orders, prov, wasPaid, applied, timedOut, observed>>

CreateNewOrderStkAccepted(t) == StkAccepted(t, "createNewOrder")
CreateNewOrderStkRejected(t) == StkRejected(t, "createNewOrder")
CreateNewOrderRecord(t) == RecordInitiation(t, "createNewOrder")

\* ------------------------------------------------- later payment attempt
\* initiatePayment, up to the provider call: only the buyer, only while the
\* order is pending; the attempt is logged before the provider is called
\* who may send the request of each kind
Party(kind, actor) ==
    CASE kind = "ship" -> IsSeller(actor)
      [] kind \in {"confirm", "initiatePayment"} -> IsBuyer(actor)
      [] kind = "dispute" -> IsBuyer(actor) \/ IsSeller(actor)

\* the checks after findOrderById, in the order the handlers make them:
\* 404 no such order, 403 not the party, 400 wrong status
rejectionCode(kind, o, actor) ==
    IF o \notin OrderIds THEN 404
    ELSE IF ~Party(kind, actor) THEN 403
    ELSE 400

initiatePaymentGuard(o, actor) ==
    /\ o \in OrderIds
    /\ IsBuyer(actor)
    /\ orders[o].status = "pending"

\* collection attempts logged for order o so far
Attempts(o) ==
    Cardinality({i \in 1..Len(txs) : txs[i].order_id = o /\ txs[i].provider \in Methods})

InitiatePayment(o, actor, paymentMethod) ==
    IF ~initiatePaymentGuard(o, actor)
    THEN Reply(Response("initiatePayment",
                        rejectionCode("initiatePayment", o, actor),
                        o, FALSE))
    ELSE /\ Room
         /\ Attempts(o) < MaxAttempts
         /\ LET tx == Len(txs) + 1
                rows == createTransaction(txs, TxRow(o, paymentMethod, NoRef, "pending"))
            IN  IF paymentMethod \in supportedPaymentMethods
                THEN /\ HasFree
                     /\ txs' = rows
                     /\ tasks' = Start(Task("initiatePayment", "initiate", o, tx,
                                            NoRef, paymentMethod, "", FALSE))
                     /\ UNCHANGED resp
                ELSE \* default: throw new Error('Unsupported payment method.')
                     /\ txs' = updateTransactionDetails(rows, tx, "failed", NoRef)
                     /\ UNCHANGED tasks
                     /\ Answer(Response("initiatePayment", 500, o, FALSE))
         /\ UNCHANGED <<orders, prov, wasPaid, applied, timedOut, observed>>

InitiatePaymentStkAccepted(t) ==
    /\ t.outcome = "mpesa"
    /\ StkAccepted(t, "initiatePayment")

\* initiateAirtelPayment accepted: the provider's response is returned as it
\* came and the controller stores its transaction.id as the reference; the
\* receipt flag says whether the provider's callbacks for this payment carry
\* an airtel_money_id
InitiatePaymentAirtelAccepted(t, receipt) ==
    /\ At(t, "initiatePayment", "initiate")
    /\ t.outcome = "airtel"
    /\ Len(prov) < MaxRefs
    /\ prov' = Append(prov, [kind |-> "airtel", order |-> t.order,
                             outcome |-> "queued", receipt |-> receipt])
    /\ tasks' = Move(t, [t EXCEPT !.pc = "record", !.ref = Ref(Len(prov) + 1)])
    /\ UNCHANGED <<orders, txs, wasPaid, applied, timedOut, observed, resp>>

\* the provider call throws: the inner catch marks the attempt failed; 500
InitiatePaymentRejected(t) == StkRejected(t, "initiatePayment")

InitiatePaymentRecord(t) == RecordInitiation(t, "initiatePayment")

\* ------------------------------------------------ ship, confirm, dispute
\* a ship request that does not look at who sends it
markOrderAsShippedAnyActor(o, actor) ==
    /\ o \in OrderIds
    /\ orders[o].status = "paid"

markOrderAsShippedGuard(o, actor) ==
    /\ o \in OrderIds
    /\ IsSeller(actor)
    /\ orders[o].status = "paid"

\* a confirmation that does not look at the order's status
confirmOrderDeliveryAnyStatus(o, actor) ==
    /\ o \in OrderIds
    /\ IsBuyer(actor)

confirmOrderDeliveryGuard(o, actor) ==
    /\ o \in OrderIds
    /\ IsBuyer(actor)
    /\ orders[o].status = "shipped"

disputableStates == {"paid", "shipped", "delivered"}

raiseOrderDisputeGuard(o, actor) ==
    /\ o \in OrderIds
    /\ (IsBuyer(actor) \/ IsSeller(actor))
    /\ orders[o].status \in disputableStates

\* the first half of a user request: findOrderById and the checks on what
\* it returned; a rejected request answers 4xx and changes nothing
UserRead(kind, guard, o, actor) ==
    IF ~guard
    THEN Reply(Response(kind, rejectionCode(kind, o, actor), o, FALSE))
    ELSE /\ Room
         /\ HasFree
         /\ tasks' = Start([Task(kind, "write", o, 0, NoRef, "", orders[o].status, FALSE)
                             EXCEPT !.actor = IF observed THEN actor ELSE ""])
         /\ UNCHANGED <<orders, txs, prov, wasPaid, applied, timedOut, observed, resp>>

\* the second half: updateOrderStatus, then the 'system' log transaction
UserWrite(t, kind, status, logStatus) ==
    /\ At(t, kind, "write")
    /\ orders' = updateOrderStatus(orders, t.order, status)
    /\ txs' = createTransaction(txs, TxRow(t.order, "system", NoRef, logStatus))
    /\ tasks' = Finish(t)
    /\ Respond(t, 200)
    /\ UNCHANGED <<prov, wasPaid, applied, timedOut, observed>>

MarkOrderAsShippedRead(o, actor) ==
    UserRead("ship", markOrderAsShippedGuard(o, actor), o, actor)

MarkOrderAsShippedWrite(t) == UserWrite(t, "ship", "shipped", "success")

ConfirmOrderDeliveryRead(o, actor) ==
    UserRead("confirm", confirmOrderDeliveryGuard(o, actor), o, actor)

\* the fund release is a stub: the order is completed and a 'system'
\* transaction with status success is logged, no provider is called
ConfirmOrderDeliveryWrite(t) == UserWrite(t, "confirm", "completed", "success")

RaiseOrderDisputeRead(o, actor) ==
    UserRead("dispute", raiseOrderDisputeGuard(o, actor), o, actor)

RaiseOrderDisputeWrite(t) == UserWrite(t, "dispute", "disputed", "pending")

\* ------------------------------------------------------------ the provider
Refs == 1..Len(prov)

Decided(r) == prov[r].outcome \in {"success", "failure"}

\* the provider processes an accepted request; the outcome is what its
\* result callbacks will report, however often they are delivered
ProviderExecute(r, outcome) ==
    /\ r \in Refs
    /\ prov[r].outcome = "queued"
    /\ prov' = [prov EXCEPT ![r].outcome = outcome]
    /\ UNCHANGED <<orders, txs, tasks, wasPaid, applied, timedOut, observed, resp>>

\* outbound money movements the provider has executed for order o
Moved(o) ==
    Cardinality({r \in Refs : /\ prov[r].kind \in {"b2c", "reversal"}
                              /\ prov[r].order = o
                              /\ prov[r].outcome = "success"})

\* the success transition of correlation reference r has run
NoteApplied(r) == applied \cup {r}

\* a delivery that arrives after an earlier delivery for the same reference
\* was applied and its handler has returned
IsReplay(r) ==
    /\ r \in applied
    /\ \A t \in Running : t.ref # Ref(r)

\* a write to the store fails (connection lost, statement rejected): the
\* handler's catch block logs the error and the handler ends
CallbackKinds == {"mpesaCallback", "airtelCallback", "b2cResult", "b2cTimeout"}

StoreWriteFails(t) ==
    /\ t.kind \in CallbackKinds
    /\ t.pc \in {"writeTx", "writeOrder"}
    /\ tasks' = Finish(t)
    /\ IF t.kind \in {"mpesaCallback", "airtelCallback"}
       THEN Respond(t, 500)         \* the handler's catch block
       ELSE UNCHANGED resp          \* 200 was sent before the processing
    /\ UNCHANGED <<orders, txs, prov, wasPaid, applied, timedOut, observed>>

\* --------------------------------------------- M-Pesa collection callback
\* mpesaCallbackHandler, the reads: the transaction is looked up by
\* CheckoutRequestID; unknown or already success/failed is acknowledged
\* without a change
\* the MpesaReceiptNumber a callback may name: the webhook is not
\* authenticated, so it is whatever the sender wrote; here the receipt of
\* some collection request of the provider
Receipts == {Rcpt(k) : k \in {j \in Refs : prov[j].kind = "stk"}}

MpesaCallbackRead(r, mpesaReceiptNumber, underpaid) ==
    /\ r \in Refs
    /\ prov[r].kind = "stk"
    /\ Decided(r)
    /\ mpesaReceiptNumber \in Receipts
    /\ LET tx == findTransactionByProviderRef(Ref(r), "mpesa")
       IN  IF tx = 0
           THEN Reply(Response("mpesaCallback", 200, 0, FALSE))
           ELSE IF txs[tx].status \in {"success", "failed"}
           THEN Reply(Response("mpesaCallback", 200, txs[tx].order_id, FALSE))
           ELSE /\ HasFree
                /\ tasks' = Start([Task("mpesaCallback", "writeTx",
                                         txs[tx].order_id, tx, Ref(r),
                                         prov[r].outcome, "", IsReplay(r))
                                        EXCEPT !.receipt =
                                            IF prov[r].outcome = "success"
                                            THEN mpesaReceiptNumber ELSE NoRef,
                                               !.underpaid =
                                            /\ observed
                                            /\ prov[r].outcome = "success"
                                            /\ underpaid])
                /\ UNCHANGED <<orders, txs, prov, wasPaid, applied, timedOut, observed, resp>>

\* a handler that went on to the order update whatever the ResultCode
MpesaCallbackWriteTxThenOrder(t) ==
    /\ At(t, "mpesaCallback", "writeTx")
    /\ txs' = updateTransactionDetails(txs, t.tx,
                 IF t.outcome = "success" THEN "success" ELSE "failed",
                 IF t.outcome = "success" THEN t.receipt ELSE t.ref)
    /\ tasks' = Goto(t, "writeOrder")
    /\ UNCHANGED <<orders, prov, wasPaid, applied, timedOut, observed, resp>>

\* a request without Body.stkCallback: 400 'Invalid callback format received.'
MpesaCallbackInvalid ==
    /\ Answer(Response("mpesaCallback", 400, 0, FALSE))
    /\ UNCHANGED <<orders, txs, prov, tasks, wasPaid, applied, timedOut, observed>>

\* updateTransactionDetails: success stores the receipt number as
\* provider_ref, failure stores the CheckoutRequestID again
MpesaCallbackWriteTx(t) ==
    /\ At(t, "mpesaCallback", "writeTx")
    /\ IF t.outcome = "success"
       THEN /\ txs' = updateTransactionDetails(txs, t.tx, "success", t.receipt)
            /\ tasks' = Goto(t, "writeOrder")
            /\ UNCHANGED resp
       ELSE /\ txs' = updateTransactionDetails(txs, t.tx, "failed", t.ref)
            /\ tasks' = Finish(t)
            /\ Respond(t, 200)
    /\ UNCHANGED <<orders, prov, wasPaid, applied, timedOut, observed>>

\* a handler that marks the order paid only when the amount is not lower
MpesaCallbackWriteOrderIfFull(t) ==
    /\ At(t, "mpesaCallback", "writeOrder")
    /\ orders' = IF t.underpaid THEN orders
                 ELSE updateOrderStatus(orders, t.order, "paid")
    /\ wasPaid' = IF t.underpaid THEN wasPaid ELSE NotePaid(t.order, "paid")
    /\ applied' = NoteApplied(t.ref[2])
    /\ tasks' = Finish(t)
    /\ Respond(t, 200)
    /\ UNCHANGED <<txs, prov, timedOut, observed>>

\* updateOrderStatus(associatedOrderId, 'paid') and the two notifications
MpesaCallbackWriteOrder(t) ==
    /\ At(t, "mpesaCallback", "writeOrder")
    /\ orders' = updateOrderStatus(orders, t.order, "paid")
    /\ wasPaid' = NotePaid(t.order, "paid")
    /\ applied' = NoteApplied(t.ref[2])
    /\ tasks' = Finish(t)
    /\ Respond(t, 200)
    /\ UNCHANGED <<txs, prov, timedOut, observed>>

\* mpesaCallbackHandler run on the store (os, ts) from its first read to its
\* last write: the store it leaves
mpesaCallbackHandler(os, ts, r, outcome, mpesaReceiptNumber) ==
    LET tx == findTransactionIn(ts, Ref(r), "mpesa")
    IN  IF tx = 0 \/ ts[tx].status \in {"success", "failed"}
        THEN [orders |-> os, txs |-> ts]
        ELSE IF outcome = "success"
        THEN [orders |-> updateOrderStatus(os, ts[tx].order_id, "paid"),
              txs |-> updateTransactionDetails(ts, tx, "success", mpesaReceiptNumber)]
        ELSE [orders |-> os,
              txs |-> updateTransactionDetails(ts, tx, "failed", Ref(r))]

\* a route that binds the parameter the timeout handler reads
mpesaTimeoutParamsBound(r) == [checkoutRequestId |-> Ref(r)]

\* mpesaTimeoutHandler is mounted on /mpesa/timeout/:orderId and reads
\* req.params.checkoutRequestId, which that route never binds
mpesaTimeoutParams(r) == [orderId |-> Ref(r)]

\* queryMpesaTransactionStatus: a stub that always answers ResultCode -1
queryMpesaTransactionStatus == -1

\* mpesaTimeoutHandler run on the store (os, ts): the store it leaves, the
\* status code it answers with, and the order it marked paid, if any
mpesaTimeoutHandler(os, ts, r) ==
    LET params == mpesaTimeoutParams(r)
        checkoutRequestId ==
            IF "checkoutRequestId" \in DOMAIN params
            THEN params["checkoutRequestId"] ELSE NoRef
        tx == findTransactionIn(ts, checkoutRequestId, "mpesa")
    IN  IF checkoutRequestId = NoRef
        THEN [orders |-> os, txs |-> ts, code |-> 400, paid |-> 0]
        ELSE IF tx = 0 \/ ts[tx].status # "pending"
        THEN [orders |-> os, txs |-> ts, code |-> 200, paid |-> 0]
        ELSE IF queryMpesaTransactionStatus = 0
        THEN [orders |-> updateOrderStatus(os, ts[tx].order_id, "paid"),
              txs |-> updateTransactionDetails(ts, tx, "success", Rcpt(r)),
              code |-> 200, paid |-> ts[tx].order_id]
        ELSE [orders |-> os,
              txs |-> updateTransactionDetails(ts, tx, "failed", checkoutRequestId),
              code |-> 200, paid |-> 0]

MpesaTimeout(r) ==
    /\ r \in Refs
    /\ prov[r].kind = "stk"
    /\ r \notin timedOut               \* the provider sends one notice per request
    /\ timedOut' = timedOut \cup {r}
    /\ LET out == mpesaTimeoutHandler(orders, txs, r)
       IN  /\ orders' = out.orders
           /\ txs' = out.txs
           /\ wasPaid' = IF out.paid # 0 THEN NotePaid(out.paid, "paid") ELSE wasPaid
           /\ applied' = IF out.paid # 0 THEN NoteApplied(r) ELSE applied
           /\ Answer(Response("mpesaTimeout", out.code, prov[r].order, FALSE))
    /\ UNCHANGED <<prov, tasks, observed>>

\* ---------------------------------------------- Airtel collection callback
\* airtelCallbackHandler, the reads: no check of the transaction's status
AirtelCallbackRead(r) ==
    /\ r \in Refs
    /\ prov[r].kind = "airtel"
    /\ Decided(r)
    /\ LET tx == findTransactionByProviderRef(Ref(r), "airtel")
       IN  IF tx = 0
           THEN Reply(Response("airtelCallback", 200, 0, FALSE))
           ELSE /\ HasFree
                /\ tasks' = Start(Task("airtelCallback",
                                       IF prov[r].outcome = "success"
                                       THEN "writeOrder" ELSE "writeTx",
                                       txs[tx].order_id, tx, Ref(r), prov[r].outcome,
                                       "", IsReplay(r)))
                /\ UNCHANGED <<orders, txs, prov, wasPaid, applied, timedOut, observed, resp>>

\* status TS / SUCCESS: updateOrderStatus(orderId, 'paid') and notifications
AirtelCallbackWriteOrder(t) ==
    /\ At(t, "airtelCallback", "writeOrder")
    /\ orders' = updateOrderStatus(orders, t.order, "paid")
    /\ wasPaid' = NotePaid(t.order, "paid")
    /\ applied' = NoteApplied(t.ref[2])
    /\ tasks' = Goto(t, "writeTx")
    /\ UNCHANGED <<txs, prov, timedOut, observed, resp>>

\* updateTransactionDetails(id, internalStatus, { provider_ref: airtelReceipt })
AirtelCallbackWriteTx(t) ==
    /\ At(t, "airtelCallback", "writeTx")
    /\ LET r == t.ref[2]
           airtelReceipt == IF prov[r].receipt THEN Rcpt(r) ELSE NoRef
       IN  txs' = updateTransactionDetails(txs, t.tx,
                     IF t.outcome = "success" THEN "success" ELSE "failed",
                     airtelReceipt)
    /\ tasks' = Finish(t)
    /\ Respond(t, 200)
    /\ UNCHANGED <<orders, prov, wasPaid, applied, timedOut, observed>>

\* ------------------------------------------------ admin dispute resolution
\* resolveDisputeReleaseFunds / resolveDisputeRefundBuyer, the reads: the
\* order must be disputed; only M-Pesa orders have a payout / reversal path,
\* every other method is 'skipped'
\* a resolution that does not look at the order's status
resolveDisputeAnyStatus(o) == o \in OrderIds

resolveDisputeGuard(o) ==
    /\ o \in OrderIds
    /\ orders[o].status = "disputed"

ResolveDisputeRead(kind, o) ==
    IF ~resolveDisputeGuard(o)
    THEN Reply(Response(kind, IF o \in OrderIds THEN 400 ELSE 404,
                        o, FALSE))
    ELSE /\ Room
         /\ HasFree
         /\ tasks' = IF orders[o].payment_method = "mpesa"
                     THEN Start(Task(kind, "initiate", o, 0, NoRef, "",
                                     orders[o].status, FALSE))
                     ELSE Start(Task(kind, "createTx", o, 0, NoRef, "skipped",
                                     orders[o].status, FALSE))
         /\ UNCHANGED <<orders, txs, prov, wasPaid, applied, timedOut, observed, resp>>

ResolveDisputeReleaseFundsRead(o) == ResolveDisputeRead("release", o)

ResolveDisputeRefundBuyerRead(o) == ResolveDisputeRead("refund", o)

\* a handler that moved the order on whatever the provider answered
ReleaseInitiateThenUpdate(t, accepted) ==
    /\ At(t, "release", "initiate")
    /\ IF accepted
       THEN /\ Len(prov) < MaxRefs
            /\ prov' = Append(prov, [kind |-> "b2c", order |-> t.order,
                                     outcome |-> "queued", receipt |-> TRUE])
            /\ tasks' = Move(t, [t EXCEPT !.pc = "updateOrder",
                                          !.ref = Ref(Len(prov) + 1),
                                          !.outcome = "initiated"])
       ELSE /\ prov' = prov
            /\ tasks' = Move(t, [t EXCEPT !.pc = "updateOrder", !.outcome = "rejected"])
    /\ UNCHANGED <<orders, txs, wasPaid, applied, timedOut, observed, resp>>

\* initiateB2CPayment and the ResponseCode check: accepted, the provider
\* issues an OriginatorConversationID; rejected or thrown, the attempt is
\* 'failed' and the order is to stay disputed
ReleaseInitiate(t, accepted) ==
    /\ At(t, "release", "initiate")
    /\ IF accepted
       THEN /\ Len(prov) < MaxRefs
            /\ prov' = Append(prov, [kind |-> "b2c", order |-> t.order,
                                     outcome |-> "queued", receipt |-> TRUE])
            /\ tasks' = Move(t, [t EXCEPT !.pc = "updateOrder",
                                          !.ref = Ref(Len(prov) + 1),
                                          !.outcome = "initiated"])
       ELSE /\ prov' = prov
            /\ tasks' = Move(t, [t EXCEPT !.pc = "createTx", !.outcome = "rejected"])
    /\ UNCHANGED <<orders, txs, wasPaid, applied, timedOut, observed, resp>>

\* a lookup of the original payment that asks for no provider_transaction_id
originalPaymentAnySuccess(o) ==
    {i \in 1..Len(txs) : /\ txs[i].order_id = o
                         /\ txs[i].provider = "mpesa"
                         /\ txs[i].status = "success"}

\* the original payment the reversal needs: a successful 'mpesa' row of the
\* order that has a provider_transaction_id
originalPayment(o) ==
    {i \in 1..Len(txs) : /\ txs[i].order_id = o
                         /\ txs[i].provider = "mpesa"
                         /\ txs[i].status = "success"
                         /\ txs[i].provider_transaction_id # NoRef}

\* initiateMpesaReversal, called only when the original payment is found
RefundInitiate(t, accepted) ==
    /\ At(t, "refund", "initiate")
    /\ IF originalPayment(t.order) = {}
       THEN \* 'Original successful M-Pesa payment transaction ID not found'
            /\ ~accepted
            /\ prov' = prov
            /\ tasks' = Move(t, [t EXCEPT !.pc = "createTx", !.outcome = "failed"])
       ELSE IF accepted
       THEN /\ Len(prov) < MaxRefs
            /\ prov' = Append(prov, [kind |-> "reversal", order |-> t.order,
                                     outcome |-> "queued", receipt |-> TRUE])
            /\ tasks' = Move(t, [t EXCEPT !.pc = "updateOrder",
                                          !.ref = Ref(Len(prov) + 1),
                                          !.outcome = "initiated"])
       ELSE /\ prov' = prov
            /\ tasks' = Move(t, [t EXCEPT !.pc = "createTx", !.outcome = "rejected"])
    /\ UNCHANGED <<orders, txs, wasPaid, applied, timedOut, observed, resp>>

\* the provider's initiation call was made by this handler
Called(t) == t.outcome \in {"initiated", "rejected"}

orderStatusAfterInitiation(kind) ==
    IF kind = "release" THEN "processing_payout" ELSE "processing_refund"

\* updateOrderStatus(orderId, orderStatusAfterInitiation), reached only when
\* the initiation was accepted; a status the orders table's CHECK constraint
\* refuses makes the statement throw, and the outer catch block logs a
\* 'system_error' transaction with status failed
ResolveUpdateOrder(t) ==
    /\ t.kind \in {"release", "refund"}
    /\ t.pc = "updateOrder"
    /\ IF orderStatusAfterInitiation(t.kind) \in OrderStatus
       THEN /\ orders' = updateOrderStatus(orders, t.order,
                                           orderStatusAfterInitiation(t.kind))
            /\ txs' = txs
            /\ tasks' = Goto(t, "createTx")
            /\ UNCHANGED resp
       ELSE /\ orders' = orders
            /\ txs' = createTransaction(txs,
                          TxRow(t.order, "system_error", NoRef, "failed"))
            /\ tasks' = Finish(t)
            /\ Respond(t, 500)
    /\ UNCHANGED <<prov, wasPaid, applied, timedOut, observed>>

\* 200 when the initiation was accepted, 422 when it was skipped, else 500
resolveResponseCode(outcome) ==
    IF outcome = "initiated" THEN 200
    ELSE IF outcome = "skipped" THEN 422
    ELSE 500

payoutTransactionProvider(kind, method) ==
    IF method = "mpesa"
    THEN (IF kind = "release" THEN "mpesa_b2c" ELSE "mpesa_reversal")
    ELSE (IF kind = "release" THEN "airtel_payout" ELSE "airtel_refund")

\* a log of the attempt that knew only pending and failed
ResolveCreateTxNoSkipped(t) ==
    /\ t.kind \in {"release", "refund"}
    /\ t.pc = "createTx"
    /\ txs' = createTransaction(txs,
                 TxRow(t.order,
                       payoutTransactionProvider(t.kind,
                                                 orders[t.order].payment_method),
                       t.ref,
                       IF t.outcome = "initiated" THEN "pending" ELSE "failed"))
    /\ tasks' = Finish(t)
    /\ Respond(t, IF t.outcome = "initiated" THEN 200 ELSE 500)
    /\ UNCHANGED <<orders, prov, wasPaid, applied, timedOut, observed>>

\* createTransaction: the log of the attempt, pending with the provider's
\* reference when initiated, else failed or skipped
ResolveCreateTx(t) ==
    /\ t.kind \in {"release", "refund"}
    /\ t.pc = "createTx"
    /\ txs' = createTransaction(txs,
                 TxRow(t.order,
                       payoutTransactionProvider(t.kind,
                                                 orders[t.order].payment_method),
                       t.ref,
                       IF t.outcome = "initiated" THEN "pending"
                       ELSE IF t.outcome = "skipped" THEN "skipped"
                       ELSE "failed"))
    /\ tasks' = Finish(t)
    /\ Respond(t, resolveResponseCode(t.outcome))
    /\ UNCHANGED <<orders, prov, wasPaid, applied, timedOut, observed>>

\* --------------------------------------------------- payout (B2C) webhooks
\* handleB2CResult, the reads
B2CResultRead(r) ==
    /\ r \in Refs
    /\ prov[r].kind = "b2c"
    /\ Decided(r)
    /\ LET tx == findTransactionByProviderRef(Ref(r), "mpesa_b2c")
       IN  IF tx = 0
           THEN Reply(Response("b2cResult", 200, 0, FALSE))
           ELSE IF txs[tx].status \in {"success", "failed"}
           THEN Reply(Response("b2cResult", 200, txs[tx].order_id, FALSE))
           ELSE /\ HasFree
                /\ tasks' = Start(Task("b2cResult", "writeTx", txs[tx].order_id, tx,
                                       Ref(r), prov[r].outcome, "", IsReplay(r)))
                /\ Answer(Response("b2cResult", 200, txs[tx].order_id, FALSE))
                /\ UNCHANGED <<orders, txs, prov, wasPaid, applied, timedOut, observed>>

\* ResultCode 0: success / completed, else failed / delivered
b2cNewStatus(outcome) == IF outcome = "success" THEN "success" ELSE "failed"
b2cNewOrderStatus(outcome) == IF outcome = "success" THEN "completed" ELSE "delivered"

\* updateTransactionDetails(id, newStatus, { provider_ref: TransactionID })
B2CResultWriteTx(t) ==
    /\ At(t, "b2cResult", "writeTx")
    /\ txs' = updateTransactionDetails(txs, t.tx, b2cNewStatus(t.outcome),
                 IF t.outcome = "success" THEN Rcpt(t.ref[2]) ELSE NoRef)
    /\ tasks' = Goto(t, "writeOrder")
    /\ UNCHANGED <<orders, prov, wasPaid, applied, timedOut, observed, resp>>

\* updateOrderStatus(transaction.order_id, newOrderStatus)
B2CResultWriteOrder(t) ==
    /\ At(t, "b2cResult", "writeOrder")
    /\ orders' = updateOrderStatus(orders, t.order,
                                   b2cNewOrderStatus(t.outcome))
    /\ applied' = IF t.outcome = "success"
                  THEN NoteApplied(t.ref[2]) ELSE applied
    /\ tasks' = Finish(t)
    /\ UNCHANGED <<txs, prov, wasPaid, timedOut, observed, resp>>

\* handleB2CTimeout, the reads: only a pending transaction is touched; the
\* provider's queue-timeout notice may come for any accepted request
B2CTimeoutRead(r) ==
    /\ r \in Refs
    /\ prov[r].kind = "b2c"
    /\ LET tx == findTransactionByProviderRef(Ref(r), "mpesa_b2c")
       IN  IF tx = 0
           THEN Reply(Response("b2cTimeout", 200, 0, FALSE))
           ELSE IF txs[tx].status # "pending"
           THEN Reply(Response("b2cTimeout", 200, txs[tx].order_id, FALSE))
           ELSE /\ HasFree
                /\ tasks' = Start(Task("b2cTimeout", "writeTx", txs[tx].order_id, tx,
                                       Ref(r), "failure", "", IsReplay(r)))
                /\ Answer(Response("b2cTimeout", 200, txs[tx].order_id, FALSE))
                /\ UNCHANGED <<orders, txs, prov, wasPaid, applied, timedOut, observed>>

B2CTimeoutWriteTx(t) ==
    /\ At(t, "b2cTimeout", "writeTx")
    /\ txs' = updateTransactionDetails(txs, t.tx, "failed", NoRef)
    /\ tasks' = Goto(t, "writeOrder")
    /\ UNCHANGED <<orders, prov, wasPaid, applied, timedOut, observed, resp>>

B2CTimeoutWriteOrder(t) ==
    /\ At(t, "b2cTimeout", "writeOrder")
    /\ orders' = updateOrderStatus(orders, t.order, "delivered")
    /\ tasks' = Finish(t)
    /\ UNCHANGED <<txs, prov, wasPaid, applied, timedOut, observed, resp>>

\* ------------------------------------------------------ reversal webhooks
\* handleReversalResult: the transaction is looked up under provider
\* 'mpesa_reversal'; success is to move the order to refunded, failure to
\* 'refund_failed', a status the orders table refuses (the error is logged)
reversalNewOrderStatus(outcome) ==
    IF outcome = "success" THEN "refunded" ELSE "refund_failed"

ReversalResult(r, outcome) ==
    /\ r \in Refs
    /\ LET tx == findTransactionByProviderRef(Ref(r), "mpesa_reversal")
       IN  IF tx = 0 \/ txs[tx].status \in {"success", "failed"}
           THEN UNCHANGED vars
           ELSE /\ txs' = updateTransactionDetails(txs, tx, b2cNewStatus(outcome), NoRef)
                /\ orders' = IF reversalNewOrderStatus(outcome) \in OrderStatus
                             THEN updateOrderStatus(orders, txs[tx].order_id,
                                                    reversalNewOrderStatus(outcome))
                             ELSE orders
                /\ UNCHANGED <<prov, tasks, wasPaid, applied, timedOut, observed, resp>>

\* handleReversalTimeout: a pending reversal is marked failed and the order
\* is to become 'refund_failed'
ReversalTimeout(r) ==
    /\ r \in Refs
    /\ LET tx == findTransactionByProviderRef(Ref(r), "mpesa_reversal")
       IN  IF tx = 0 \/ txs[tx].status # "pending"
           THEN UNCHANGED vars
           ELSE /\ txs' = updateTransactionDetails(txs, tx, "failed", NoRef)
                /\ orders' = IF "refund_failed" \in OrderStatus
                             THEN updateOrderStatus(orders, txs[tx].order_id,
                                                    "refund_failed")
                             ELSE orders
                /\ UNCHANGED <<prov, tasks, wasPaid, applied, timedOut, observed, resp>>

\* ---------------------------------------------------------- specification
\* the values of an input that only the observed responses and log lines
\* depend on: all of them when the responses are observed, else the usual one
Watched(values, usual) == IF observed THEN values ELSE {usual}

Next ==
    \/ \E m \in Methods, role \in {"seller", "buyer"},
          amount \in Watched(Amounts, OrderAmount) :
          CreateNewOrder(m, role, amount)
    \/ \E t \in Running : CreateNewOrderStkAccepted(t)
    \/ \E t \in Running : CreateNewOrderStkRejected(t)
    \/ \E t \in Running : CreateNewOrderRecord(t)
    \/ \E o \in 1..MaxOrders, a \in Users, m \in Methods : InitiatePayment(o, a, m)
    \/ \E t \in Running : InitiatePaymentStkAccepted(t)
    \/ \E t \in Running, receipt \in BOOLEAN : InitiatePaymentAirtelAccepted(t, receipt)
    \/ \E t \in Running : InitiatePaymentRejected(t)
    \/ \E t \in Running : InitiatePaymentRecord(t)
    \/ \E o \in 1..MaxOrders, a \in Users : MarkOrderAsShippedRead(o, a)
    \/ \E t \in Running : MarkOrderAsShippedWrite(t)
    \/ \E o \in 1..MaxOrders, a \in Users : ConfirmOrderDeliveryRead(o, a)
    \/ \E t \in Running : ConfirmOrderDeliveryWrite(t)
    \/ \E o \in 1..MaxOrders, a \in Users : RaiseOrderDisputeRead(o, a)
    \/ \E t \in Running : RaiseOrderDisputeWrite(t)
    \/ \E o \in 1..MaxOrders : ResolveDisputeReleaseFundsRead(o)
    \/ \E o \in 1..MaxOrders : ResolveDisputeRefundBuyerRead(o)
    \/ \E t \in Running, accepted \in BOOLEAN : ReleaseInitiate(t, accepted)
    \/ \E t \in Running, accepted \in BOOLEAN : RefundInitiate(t, accepted)
    \/ \E t \in Running : ResolveUpdateOrder(t)
    \/ \E t \in Running : ResolveCreateTx(t)
    \/ \E r \in 1..MaxRefs, outcome \in {"success", "failure"} : ProviderExecute(r, outcome)
    \/ \E r \in 1..MaxRefs, k \in 1..MaxRefs, underpaid \in Watched(BOOLEAN, FALSE) :
          MpesaCallbackRead(r, Rcpt(k), underpaid)
    \/ MpesaCallbackInvalid
    \/ \E t \in Running : MpesaCallbackWriteTx(t)
    \/ \E t \in Running : MpesaCallbackWriteOrder(t)
    \/ \E r \in 1..MaxRefs : MpesaTimeout(r)
    \/ \E r \in 1..MaxRefs : AirtelCallbackRead(r)
    \/ \E t \in Running : AirtelCallbackWriteOrder(t)
    \/ \E t \in Running : AirtelCallbackWriteTx(t)
    \/ \E r \in 1..MaxRefs : B2CResultRead(r)
    \/ \E t \in Running : B2CResultWriteTx(t)
    \/ \E t \in Running : B2CResultWriteOrder(t)
    \/ \E r \in 1..MaxRefs : B2CTimeoutRead(r)
    \/ \E t \in Running : B2CTimeoutWriteTx(t)
    \/ \E t \in Running : B2CTimeoutWriteOrder(t)
    \/ \E r \in 1..MaxRefs, outcome \in {"success", "failure"} : ReversalResult(r, outcome)
    \/ \E r \in 1..MaxRefs : ReversalTimeout(r)

Spec == Init /\ [][Next]_vars

\* the same system with its responses observed
SpecObserved == InitObserved /\ [][Next]_vars

\* the same system on a store whose writes may fail
NextFaulty ==
    \/ Next
    \/ \E t \in Running : StoreWriteFails(t)

SpecFaulty == Init /\ [][NextFaulty]_vars

TypeOK ==
    /\ \A o \in OrderIds : orders[o].status \in OrderStatus
    /\ Len(orders) <= MaxOrders
    /\ Len(txs) <= MaxTx
    /\ Len(prov) <= MaxRefs
    /\ BagCardinality(tasks) <= MaxTasks
    /\ applied \subseteq 1..MaxRefs
    /\ timedOut \subseteq 1..MaxRefs
    /\ observed \in BOOLEAN
    /\ resp.code \in {0, 200, 201, 400, 403, 404, 422, 500}
    /\ (~observed => resp = NoResponse)

\* ------------------------------------------------------------- properties
AdminKinds == {"release", "refund"}

CollectionCallbackKinds == {"mpesaCallback", "airtelCallback"}

\* handler t sends its response and returns in this step
Returns(t) == StepBy(t) /\ BagCardinality(tasks') < BagCardinality(tasks)

\* C1: for every order the provider executes at most one outbound money
\* movement (payout to the seller or reversal to the buyer) in total.
C1_ExactlyOnceFundMovement == \A o \in OrderIds : Moved(o) <= 1

\* C2: once a success callback for a reference was fully processed, a later
\* delivery of the same success callback is a no-op: no step of its handler
\* changes the order's status, a transaction's status or the number of
\* transactions.
C2_ReplayIsNoOp ==
    [][\A t \in Running :
          (/\ t.kind \in CollectionCallbackKinds
           /\ t.outcome = "success"
           /\ t.replay
           /\ StepBy(t))
          => /\ orders'[t.order].status = orders[t.order].status
             /\ Len(txs') = Len(txs)
             /\ \A i \in 1..Len(txs) : txs'[i].status = txs[i].status]_vars

\* C3: once an order's status is completed, cancelled or refunded, no later
\* operation changes that order's status.
C3_TerminalOrderFinal ==
    [][\A o \in OrderIds :
          orders[o].status \in TerminalOrderStatus
          => orders'[o].status = orders[o].status]_vars

\* C4: once a transaction's status is success, failed or refunded, no later
\* operation changes that transaction's status.
C4_TxWriteOnceToTerminal ==
    [][\A i \in 1..Len(txs) :
          txs[i].status \in TerminalTxStatus
          => txs'[i].status = txs[i].status]_vars

\* C5: every change of an order's status is an edge of the order state
\* machine; no other status change ever occurs.
C5_OnlyLegalEdges ==
    [][\A o \in OrderIds :
          orders'[o].status # orders[o].status
          => <<orders[o].status, orders'[o].status>> \in
                {<<"pending", "paid">>, <<"paid", "shipped">>,
                 <<"shipped", "completed">>, <<"paid", "disputed">>,
                 <<"shipped", "disputed">>, <<"delivered", "disputed">>,
                 <<"disputed", "processing_payout">>,
                 <<"processing_payout", "completed">>,
                 <<"disputed", "processing_refund">>,
                 <<"processing_refund", "refunded">>,
                 <<"processing_payout", "disputed">>,
                 <<"processing_refund", "disputed">>}]_vars

\* C6: an order whose status is completed had status paid at some earlier
\* point of the execution.
C6_CompletedWasPaid ==
    \A o \in OrderIds : orders[o].status = "completed" => o \in wasPaid

\* an order went the whole way to completed
C6_Witness ==
    \E o \in OrderIds : orders[o].status = "completed" /\ o \in wasPaid

\* C7: of a confirm-delivery and a raise-dispute request that both read the
\* same shipped order, the one that comes to write after the other has
\* changed the order's status is rejected and changes nothing.
C7_ConfirmDisputeOneWins ==
    [][\A t \in Running :
          (/\ StepBy(t)
           /\ t.seen = "shipped"
           /\ \/ t.kind = "dispute" /\ orders[t.order].status = "completed"
              \/ t.kind = "confirm" /\ orders[t.order].status = "disputed")
          => orders' = orders /\ txs' = txs]_vars

\* C8: of two interleaved admin resolution requests for the same disputed
\* order at most one reaches the provider's initiation call: the call is
\* made only while the order is still disputed and no other resolution of
\* that order in flight has made the call.
C8_OneResolutionReachesProvider ==
    [][\A t \in Running :
          (/\ t.kind \in AdminKinds
           /\ t.pc = "initiate"
           /\ StepBy(t)
           /\ \E u \in DOMAIN tasks' :
                 CopiesIn(u, tasks') > CopiesIn(u, tasks) /\ Called(u))
          => /\ orders[t.order].status = "disputed"
             /\ \A v \in Running :
                   (v.kind \in AdminKinds /\ v.order = t.order /\ Called(v))
                   => FALSE]_vars

\* C9: when two deliveries of the same success callback are processed
\* concurrently, the order transition and its notifications are applied
\* exactly once.
C9_ConcurrentDeliveriesApplyOnce ==
    [][\A t \in Running :
          (/\ t.kind \in CallbackKinds
           /\ t.pc = "writeOrder"
           /\ t.outcome = "success"
           /\ ~t.replay
           /\ StepBy(t))
          => t.ref[2] \notin applied]_vars

\* C10: after a callback handler finishes, normally or with an error, its
\* transaction is success exactly when the order has made the corresponding
\* transition, and it is not failed with the order left in
\* processing_payout or processing_refund.
C10_TxAndOrderAreOneUnit ==
    [][\A t \in Running :
          (/\ t.kind \in CallbackKinds
           /\ StepBy(t)
           /\ BagCardinality(tasks') < BagCardinality(tasks))
          => /\ (txs'[t.tx].status = "success") <=> (t.ref[2] \in applied')
             /\ ~(/\ txs'[t.tx].status = "failed"
                  /\ orders'[t.order].status
                         \in {"processing_payout", "processing_refund"})]_vars

C12_SuccessResultCompletes ==
    [][/\ \A t \in Running :
             (t.kind = "b2cResult" /\ t.outcome = "success" /\ Returns(t))
             => /\ txs'[t.tx].status = "success"
                /\ orders'[t.order].status = "completed"
       /\ \A i \in 1..Len(txs) :
             (/\ txs[i].provider = "mpesa_reversal"
              /\ txs[i].status = "pending"
              /\ txs'[i].status = "success")
             => orders'[txs[i].order_id].status = "refunded"]_vars

\* C13: when a failure result callback for a pending payout or reversal
\* transaction has been handled, the transaction is failed and the order's
\* status is disputed.
C13_FailureResultRevertsToDisputed ==
    [][/\ \A t \in Running :
             (t.kind = "b2cResult" /\ t.outcome = "failure" /\ Returns(t))
             => /\ txs'[t.tx].status = "failed"
                /\ orders'[t.order].status = "disputed"
       /\ \A i \in 1..Len(txs) :
             (/\ txs[i].provider = "mpesa_reversal"
              /\ txs[i].status = "pending"
              /\ txs'[i].status = "failed")
             => orders'[txs[i].order_id].status = "disputed"]_vars

\* C14: a timeout notification never moves a transaction to another status
\* and never changes an order's status.
C14_TimeoutDoesNotFinalize ==
    [][((\E t \in Running : t.kind = "b2cTimeout" /\ StepBy(t))
        \/ timedOut' # timedOut)
       => /\ Len(txs') = Len(txs)
          /\ \A i \in 1..Len(txs) : txs'[i].status = txs[i].status
          /\ \A o \in OrderIds : orders'[o].status = orders[o].status]_vars

\* C15: when the collection timeout notice is answered for a pending
\* collection transaction whose callback never arrived and whose payment
\* the provider reports as successful, the transaction becomes success and
\* the order becomes paid.
C15_TimeoutQueryReachesPaid ==
    [][\A r \in Refs :
          (/\ r \in timedOut' /\ r \notin timedOut
           /\ prov[r].outcome = "success"
           /\ r \notin applied
           /\ \A t \in Running : t.ref # Ref(r)
           /\ findTransactionByProviderRef(Ref(r), "mpesa") # 0
           /\ txs[findTransactionByProviderRef(Ref(r), "mpesa")].status = "pending")
          => /\ txs'[findTransactionByProviderRef(Ref(r), "mpesa")].status = "success"
             /\ orders'[prov[r].order].status = "paid"]_vars

\* C16: a collection callback that reports failure for a pending collection
\* transaction leaves the order's status unchanged in every step of its
\* handler, and when the handler returns the transaction is failed.
C16_CollectionFailureKeepsOrder ==
    [][\A t \in Running :
          (/\ t.kind \in CollectionCallbackKinds
           /\ t.outcome = "failure"
           /\ StepBy(t))
          => /\ \A o \in OrderIds : orders'[o].status = orders[o].status
             /\ Returns(t) => txs'[t.tx].status = "failed"]_vars

\* a failed collection attempt of an order that is still pending
C16_Witness ==
    \E i \in 1..Len(txs) :
        /\ txs[i].provider \in supportedPaymentMethods
        /\ txs[i].status = "failed"
        /\ \E r \in Refs : prov[r].outcome = "failure" /\ txs[i].provider_ref = Ref(r)
        /\ orders[txs[i].order_id].status = "pending"

\* C17: when an admin release request on a disputed order was accepted by
\* the provider, then as the request returns the order is processing_payout
\* and the ledger holds exactly one pending payout transaction of the order,
\* whose reference is the one the provider returned.
C17_AcceptedReleaseIsProcessing ==
    [][\A t \in Running :
          (t.kind = "release" /\ t.outcome = "initiated" /\ Returns(t))
          => /\ orders'[t.order].status = "processing_payout"
             /\ \E i \in 1..Len(txs') :
                   /\ txs'[i].order_id = t.order
                   /\ txs'[i].provider = "mpesa_b2c"
                   /\ txs'[i].status = "pending"
                   /\ txs'[i].provider_ref = t.ref
                   /\ \A j \in 1..Len(txs') :
                         (/\ txs'[j].order_id = t.order
                          /\ txs'[j].provider = "mpesa_b2c"
                          /\ txs'[j].status = "pending") => j = i]_vars

\* C18: when an admin refund request on a disputed M-Pesa order whose
\* collection is recorded as successful returns, and the provider did not
\* refuse the reversal, the order is processing_refund and the ledger holds
\* exactly one pending reversal transaction of the order, whose reference
\* is the one the provider returned.
C18_AcceptedRefundIsProcessing ==
    [][\A t \in Running :
          (/\ t.kind = "refund" /\ Returns(t)
           /\ t.outcome \notin {"rejected", "skipped"}
           /\ \E i \in 1..Len(txs) : /\ txs[i].order_id = t.order
                                     /\ txs[i].provider = "mpesa"
                                     /\ txs[i].status = "success")
          => /\ orders'[t.order].status = "processing_refund"
             /\ \E i \in 1..Len(txs') :
                   /\ txs'[i].order_id = t.order
                   /\ txs'[i].provider = "mpesa_reversal"
                   /\ txs'[i].status = "pending"
                   /\ txs'[i].provider_ref # NoRef
                   /\ \A j \in 1..Len(txs') :
                         (/\ txs'[j].order_id = t.order
                          /\ txs'[j].provider = "mpesa_reversal"
                          /\ txs'[j].status = "pending") => j = i]_vars

C20_RejectedInitiationIsFailed ==
    [][\A t \in Running :
          (/\ t.kind \in AdminKinds
           /\ t.outcome \in {"rejected", "failed"}
           /\ StepBy(t))
          => /\ orders' = orders
             /\ prov' = prov
             /\ Returns(t)
             /\ Len(txs') = Len(txs) + 1
             /\ SubSeq(txs', 1, Len(txs)) = txs
             /\ txs'[Len(txs')].order_id = t.order
             /\ txs'[Len(txs')].status = "failed"]_vars

\* a payout the provider rejected: a failed payout row, the order disputed
C20_Witness ==
    \E i \in 1..Len(txs) :
        /\ txs[i].status = "failed"
        /\ txs[i].provider = "mpesa_b2c"
        /\ txs[i].provider_ref = NoRef
        /\ orders[txs[i].order_id].status = "disputed"

\* C21: an admin release or refund request on an order whose status is not
\* disputed is answered 400 and changes nothing: no provider call, no
\* transaction, no order update, and no handler is left running.
C21_NonDisputedResolveRejected ==
    [][\A kind \in AdminKinds, o \in 1..MaxOrders :
          (/\ o \in OrderIds
           /\ orders[o].status # "disputed"
           /\ ResolveDisputeRead(kind, o))
          => /\ resp' = Response(kind, 400, o, FALSE)
             /\ UNCHANGED <<orders, txs, prov, tasks>>]_vars

\* a release request on a shipped order was answered 400; the order is still
\* shipped and the ledger holds no payout row
C21_Witness ==
    /\ resp.handler = "release"
    /\ resp.code = 400
    /\ resp.order \in OrderIds
    /\ orders[resp.order].status = "shipped"
    /\ \A i \in 1..Len(txs) : txs[i].provider # "mpesa_b2c"

\* C22: a callback or timeout notification whose correlation reference
\* matches no transaction is answered 200 and changes no order and no
\* transaction.
C22_UnknownRefAcknowledged ==
    [][/\ \A r \in Refs :
             (/\ prov[r].kind = "stk"
              /\ findTransactionByProviderRef(Ref(r), "mpesa") = 0
              /\ \/ MpesaTimeout(r)
                 \/ \E k \in Refs, u \in BOOLEAN : MpesaCallbackRead(r, Rcpt(k), u))
             => /\ resp'.code = 200
                /\ UNCHANGED <<orders, txs, tasks>>
       /\ \A r \in Refs :
             (/\ prov[r].kind = "airtel"
              /\ findTransactionByProviderRef(Ref(r), "airtel") = 0
              /\ AirtelCallbackRead(r))
             => /\ resp'.code = 200
                /\ UNCHANGED <<orders, txs, tasks>>
       /\ \A r \in Refs :
             (/\ prov[r].kind = "b2c"
              /\ findTransactionByProviderRef(Ref(r), "mpesa_b2c") = 0
              /\ (B2CResultRead(r) \/ B2CTimeoutRead(r)))
             => /\ resp'.code = 200
                /\ UNCHANGED <<orders, txs, tasks>>]_vars

\* C23: a success collection callback moves the order to paid whether the
\* amount it reports equals the order's amount or is lower: the handler's
\* order update writes paid, and the order is paid as the handler returns.
C23_UnderpaidSuccessStillPaid ==
    [][\A t \in Running :
          (/\ t.kind \in CollectionCallbackKinds
           /\ t.outcome = "success"
           /\ t.underpaid \in BOOLEAN
           /\ StepBy(t))
          => /\ (t.pc = "writeOrder") => orders'[t.order].status = "paid"
             /\ Returns(t) => /\ orders'[t.order].status = "paid"
                              /\ t.order \in wasPaid']_vars

\* an M-Pesa success callback reporting a lower amount was answered 200 and
\* the order, whose only collection attempt it was, is paid
C23_Witness ==
    /\ resp.handler = "mpesaCallback"
    /\ resp.code = 200
    /\ resp.underpaid
    /\ resp.order \in OrderIds
    /\ orders[resp.order].status = "paid"
    /\ Cardinality({i \in 1..Len(txs) : txs[i].order_id = resp.order}) = 1
    /\ txs[1].status = "success"

InitiationKinds == {"createNewOrder", "initiatePayment"}

C25_InvalidCreateRejected ==
    [][\A m \in Methods, role \in {"seller", "buyer"}, amount \in Amounts :
          (/\ \/ amount <= 0
              \/ m \notin supportedPaymentMethods
              \/ role \notin {"seller", "business"}
           /\ CreateNewOrder(m, role, amount))
          => UNCHANGED <<orders, txs, prov, tasks>>]_vars

\* C26: a ship request is applied only for the order's seller on a paid
\* order, a confirm-delivery request only for the order's buyer on a shipped
\* order, a raise-dispute request only for the order's buyer or seller on a
\* paid, shipped or delivered order; any other request is answered 4xx and
\* leaves the orders, the ledger and the provider unchanged.
C26_GuardFailureChangesNothing ==
    [][/\ \* a rejection changes nothing
          (/\ resp' # resp
           /\ resp'.handler \in {"ship", "confirm", "dispute"}
           /\ resp'.code \in {400, 403, 404})
          => UNCHANGED <<orders, txs, prov, tasks>>
       /\ \* a request is taken up only when its guard holds
          \A t \in DOMAIN tasks' :
             CopiesIn(t, tasks') > CopiesIn(t, tasks) =>
             /\ t.kind = "ship"
                   => /\ t.actor = "seller"
                      /\ orders[t.order].status = "paid"
             /\ t.kind = "confirm"
                   => /\ t.actor = "buyer"
                      /\ orders[t.order].status = "shipped"
             /\ t.kind = "dispute"
                   => /\ t.actor \in {"buyer", "seller"}
                      /\ orders[t.order].status \in {"paid", "shipped", "delivered"}
       /\ \* and it is applied to an order in a status of its guard
          \A t \in Running :
             (t.pc = "write" /\ StepBy(t)) =>
             /\ t.kind = "ship" => orders[t.order].status = "paid"
             /\ t.kind = "confirm" => orders[t.order].status = "shipped"
             /\ t.kind = "dispute"
                   => orders[t.order].status \in {"paid", "shipped", "delivered"}]_vars

\* the buyer's confirm-delivery request on a paid order was answered 400 (the
\* requester is the order's buyer, the status is not shipped) and the order
\* is still paid
C26_Witness ==
    /\ resp.handler = "confirm"
    /\ resp.code = 400
    /\ resp.order \in OrderIds
    /\ orders[resp.order].status = "paid"

\* the endpoints the payment providers call (paymentRoutes: callback, timeout
\* and B2C result / timeout routes)
WebhookHandlers ==
    {"mpesaCallback", "mpesaTimeout", "airtelCallback", "b2cResult", "b2cTimeout"}

\* C27: whatever a provider webhook endpoint answered last, it answered with
\* HTTP 200: no malformed payload, unknown reference or internal error is
\* surfaced to the provider as another status.
C27_WebhooksAnswer200 ==
    resp.handler \in WebhookHandlers => resp.code = 200

CollectionKinds == {"mpesaCallback", "airtelCallback"}

\* C29: the order update of a collection success (the paid write of an
\* M-Pesa or Airtel callback, or a timeout notice whose status query found
\* the payment) leaves every order that is not pending in the status it has.
C29_CollectionSuccessOnlyFromPending ==
    [][(\/ \E t \in Running :
              t.kind \in CollectionKinds /\ t.pc = "writeOrder" /\ StepBy(t)
        \/ timedOut' # timedOut)
       => \A o \in OrderIds :
             orders[o].status # "pending" => orders'[o].status = orders[o].status]_vars

\* C30: when a confirm-delivery request returns, the order is completed and
\* a payout for it has been requested from the provider, recorded in a
\* transaction that carries the request's correlation reference.
C30_ConfirmInitiatesPayout ==
    [][\A t \in Running :
          (t.kind = "confirm" /\ Returns(t)) =>
          /\ orders'[t.order].status = "completed"
          /\ \E r \in 1..Len(prov') :
                /\ prov'[r].kind = "b2c"
                /\ prov'[r].order = t.order
                /\ \E i \in 1..Len(txs') :
                      /\ txs'[i].order_id = t.order
                      /\ txs'[i].provider_ref = Ref(r)]_vars

\* C31: when the admin refund of an M-Pesa order whose collection callback
\* succeeded comes to initiate the reversal, it finds the order's original
\* successful collection transaction, so that the reversal can be requested
\* and its result can take the order to refunded.
C31_RefundFindsOriginalPayment ==
    [][\A t \in Running :
          (/\ t.kind = "refund" /\ t.pc = "initiate" /\ StepBy(t)
           /\ orders[t.order].payment_method = "mpesa"
           /\ \E i \in 1..Len(txs) : /\ txs[i].order_id = t.order
                                     /\ txs[i].provider = "mpesa"
                                     /\ txs[i].status = "success")
          => originalPayment(t.order) # {}]_vars

\* C32: when order creation (201) or a payment attempt (200) reports that the
\* collection was initiated, the order has a pending transaction whose
\* provider_ref is the reference the provider issued for a collection
\* request of that order.
C32_AcceptedInitiationKeepsRef ==
    [][(/\ resp' # resp
        /\ resp'.handler \in InitiationKinds
        /\ resp'.code \in {200, 201})
       => \E i \in 1..Len(txs'), r \in 1..Len(prov') :
             /\ txs'[i].order_id = resp'.order
             /\ txs'[i].status = "pending"
             /\ prov'[r].kind \in {"stk", "airtel"}
             /\ prov'[r].order = resp'.order
             /\ txs'[i].provider_ref = Ref(r)]_vars

\* the handlers that ask the provider for a collection, payout or reversal
InitiatingKinds == {"createNewOrder", "initiatePayment", "release", "refund"}

\* the provider column under which the callbacks of request r look it up
callbackProvider(r) ==
    CASE prov[r].kind = "stk" -> "mpesa"
      [] prov[r].kind = "airtel" -> "airtel"
      [] prov[r].kind = "b2c" -> "mpesa_b2c"
      [] prov[r].kind = "reversal" -> "mpesa_reversal"

\* C33: as soon as a callback for an accepted request r can be processed
\* (the provider has decided r), the lookup of r's reference finds its
\* transaction, even while the handler that initiated r is still running.
C33_TxRecordedBeforeCallback ==
    \A r \in Refs :
        (/\ Decided(r)
         /\ \E t \in Running : t.kind \in InitiatingKinds /\ t.ref = Ref(r))
        => findTransactionByProviderRef(Ref(r), callbackProvider(r)) # 0

\* C34: in every state of the store, an order in processing_payout has a
\* pending mpesa_b2c transaction with a reference, and an order in
\* processing_refund a pending mpesa_reversal transaction with a reference.
C34_ProcessingHasPendingTx ==
    \A o \in OrderIds :
        /\ orders[o].status = "processing_payout"
              => \E i \in 1..Len(txs) : /\ txs[i].order_id = o
                                        /\ txs[i].provider = "mpesa_b2c"
                                        /\ txs[i].status = "pending"
                                        /\ txs[i].provider_ref # NoRef
        /\ orders[o].status = "processing_refund"
              => \E i \in 1..Len(txs) : /\ txs[i].order_id = o
                                        /\ txs[i].provider = "mpesa_reversal"
                                        /\ txs[i].status = "pending"
                                        /\ txs[i].provider_ref # NoRef

\* ------------------------------------------------------------- liveness
\* a step of handler t, whichever it is: a handler that was started runs on
\* (the Node event loop resumes every await whose promise has settled)
HandlerStep(t) ==
    \/ CreateNewOrderStkAccepted(t)
    \/ CreateNewOrderStkRejected(t)
    \/ CreateNewOrderRecord(t)
    \/ InitiatePaymentStkAccepted(t)
    \/ \E receipt \in BOOLEAN : InitiatePaymentAirtelAccepted(t, receipt)
    \/ InitiatePaymentRejected(t)
    \/ InitiatePaymentRecord(t)
    \/ MarkOrderAsShippedWrite(t)
    \/ ConfirmOrderDeliveryWrite(t)
    \/ RaiseOrderDisputeWrite(t)
    \/ \E accepted \in BOOLEAN : ReleaseInitiate(t, accepted)
    \/ \E accepted \in BOOLEAN : RefundInitiate(t, accepted)
    \/ ResolveUpdateOrder(t)
    \/ ResolveCreateTx(t)
    \/ MpesaCallbackWriteTx(t)
    \/ MpesaCallbackWriteOrder(t)
    \/ AirtelCallbackWriteOrder(t)
    \/ AirtelCallbackWriteTx(t)
    \/ B2CResultWriteTx(t)
    \/ B2CResultWriteOrder(t)
    \/ B2CTimeoutWriteTx(t)
    \/ B2CTimeoutWriteOrder(t)

\* handlers run on, the provider executes what it accepted, and the result
\* of a payout whose transaction is still pending is delivered and taken up
Fairness ==
    /\ WF_vars(\E t \in Running : HandlerStep(t))
    /\ WF_vars(\E r \in 1..MaxRefs, outcome \in {"success", "failure"} :
                   ProviderExecute(r, outcome))
    /\ SF_vars(\E r \in 1..MaxRefs : B2CResultRead(r))

SpecLive == Init /\ [][Next]_vars /\ Fairness

\* C35: with handlers running on and payout results delivered, an order in
\* processing_payout eventually is completed or disputed again.
C35_PayoutEventuallySettles ==
    \A o \in 1..MaxOrders :
        (o \in OrderIds /\ orders[o].status = "processing_payout")
            ~> (o \in OrderIds /\ orders[o].status \in {"completed", "disputed"})

\* the amount the applied success callbacks of order o's collections
\* reported (each reports the order's amount)
collectedAmount(o) ==
    OrderAmount * Cardinality({r \in applied : /\ prov[r].kind \in {"stk", "airtel"}
                                               /\ prov[r].order = o})

\* the amount of the payouts and reversals requested for order o that the
\* provider has not failed: each is initiated with order.amount
paidOutAmount(o) ==
    OrderAmount * Cardinality({r \in Refs : /\ prov[r].kind \in {"b2c", "reversal"}
                                            /\ prov[r].order = o
                                            /\ prov[r].outcome # "failure"})

\* C36: for every order, the amount of the payouts and reversals initiated
\* for it (leaving out those the provider failed) is at most the amount its
\* successful collection callbacks reported.
C36_EscrowConservation ==
    \A o \in OrderIds : paidOutAmount(o) <= collectedAmount(o)

\* ---------------------------------------------- webhooks over two orders
\* stores that two orders' requests leave behind.  Either order 1 (M-Pesa)
\* was paid, disputed and its release accepted, and order 2 (M-Pesa) awaits
\* its collection; or order 1 (M-Pesa) awaits its collection and order 2
\* (Airtel) awaits the collection of a later payment attempt
StoreAwaitingPayout ==
    [orders |-> <<[status |-> "processing_payout", payment_method |-> "mpesa"],
                  [status |-> "pending", payment_method |-> "mpesa"]>>,
     txs |-> <<TxRow(1, "mpesa", Rcpt(1), "success"),
               TxRow(1, "system", NoRef, "pending"),
               TxRow(1, "mpesa_b2c", Ref(2), "pending"),
               TxRow(2, "mpesa", Ref(3), "pending")>>,
     prov |-> <<[kind |-> "stk", order |-> 1, outcome |-> "success", receipt |-> TRUE],
                [kind |-> "b2c", order |-> 1, outcome |-> "queued", receipt |-> TRUE],
                [kind |-> "stk", order |-> 2, outcome |-> "queued", receipt |-> TRUE]>>,
     wasPaid |-> {1},
     applied |-> {1}]

StoreAwaitingCollections ==
    [orders |-> <<[status |-> "pending", payment_method |-> "mpesa"],
                  [status |-> "pending", payment_method |-> "airtel"]>>,
     txs |-> <<TxRow(1, "mpesa", Ref(1), "pending"),
               TxRow(2, "airtel", NoRef, "pending"),
               TxRow(2, "airtel", Ref(2), "pending")>>,
     prov |-> <<[kind |-> "stk", order |-> 1, outcome |-> "queued", receipt |-> TRUE],
                [kind |-> "airtel", order |-> 2, outcome |-> "queued", receipt |-> TRUE]>>,
     wasPaid |-> {},
     applied |-> {}]

InitWebhooks ==
    \E store \in {StoreAwaitingPayout, StoreAwaitingCollections} :
        /\ orders = store.orders
        /\ txs = store.txs
        /\ prov = store.prov
        /\ wasPaid = store.wasPaid
        /\ applied = store.applied
        /\ tasks = EmptyBag
        /\ timedOut = {}
        /\ observed = FALSE
        /\ resp = NoResponse

\* the provider and the webhook handlers
NextWebhooks ==
    \/ \E r \in 1..MaxRefs, outcome \in {"success", "failure"} : ProviderExecute(r, outcome)
    \/ \E r \in 1..MaxRefs, k \in 1..MaxRefs : MpesaCallbackRead(r, Rcpt(k), FALSE)
    \/ \E t \in Running : MpesaCallbackWriteTx(t)
    \/ \E t \in Running : MpesaCallbackWriteOrder(t)
    \/ \E r \in 1..MaxRefs : MpesaTimeout(r)
    \/ \E r \in 1..MaxRefs : AirtelCallbackRead(r)
    \/ \E t \in Running : AirtelCallbackWriteOrder(t)
    \/ \E t \in Running : AirtelCallbackWriteTx(t)
    \/ \E r \in 1..MaxRefs : B2CResultRead(r)
    \/ \E t \in Running : B2CResultWriteTx(t)
    \/ \E t \in Running : B2CResultWriteOrder(t)
    \/ \E r \in 1..MaxRefs : B2CTimeoutRead(r)
    \/ \E t \in Running : B2CTimeoutWriteTx(t)
    \/ \E t \in Running : B2CTimeoutWriteOrder(t)
    \/ \E r \in 1..MaxRefs, outcome \in {"success", "failure"} : ReversalResult(r, outcome)
    \/ \E r \in 1..MaxRefs : ReversalTimeout(r)

SpecWebhooks == InitWebhooks /\ [][NextWebhooks]_vars

\* C37: a step of a callback or timeout handler changes at most the
\* transaction its reference matched and the status of that transaction's
\* order: a handler is started for the transaction its reference finds and
\* for that transaction's order, every other transaction and every other
\* order is left as it is, and no transaction is removed or given to
\* another order.
C37_CallbackTouchesOnlyItsOwn ==
    [][/\ Len(txs') >= Len(txs)
       /\ \A i \in 1..Len(txs) : txs'[i].order_id = txs[i].order_id
       /\ \A u \in DOMAIN tasks' :
             (/\ u.kind \in CallbackKinds
              /\ BagCardinality(tasks') > BagCardinality(tasks)
              /\ CopiesIn(u, tasks') > CopiesIn(u, tasks))
             => /\ u.tx \in 1..Len(txs)
                /\ txs[u.tx].provider_ref = u.ref
                /\ u.order = txs[u.tx].order_id
                /\ UNCHANGED <<orders, txs>>
       /\ \A t \in Running :
             (t.kind \in CallbackKinds /\ StepBy(t))
             => /\ \A i \in 1..Len(txs) : i # t.tx => txs'[i] = txs[i]
                /\ \A o \in OrderIds :
                      o # txs[t.tx].order_id => orders'[o] = orders[o]
       /\ (tasks' = tasks /\ prov' = prov)
             => \E r \in 1..MaxRefs :
                   LET tx == findTransactionByProviderRef(Ref(r),
                                 IF r \in timedOut' \ timedOut
                                 THEN "mpesa" ELSE "mpesa_reversal")
                   IN  /\ \A i \in 1..Len(txs) : i # tx => txs'[i] = txs[i]
                       /\ \A o \in OrderIds :
                             (tx = 0 \/ o # txs[tx].order_id)
                             => orders'[o] = orders[o]]_vars

\* the success callback of order 2's collection was applied (order 2 is
\* paid, its transaction success) while order 1 is still in
\* processing_payout with its payout transaction pending
C37_Witness ==
    /\ Len(orders) = 2
    /\ orders[2].status = "paid"
    /\ 3 \in applied
    /\ orders[1].status = "processing_payout"
    /\ \E i \in 1..Len(txs) : /\ txs[i].order_id = 1
                              /\ txs[i].provider = "mpesa_b2c"
                              /\ txs[i].status = "pending"
    /\ \E i \in 1..Len(txs) : /\ txs[i].order_id = 2
                              /\ txs[i].status = "success"
    /\ tasks = EmptyBag

====
